---- MODULE Spec2Model ----
(***************************************************************************)
(* Model of the barter-rs execution core:                                  *)
(*   - src/engine/state/mod.rs   : the Trader lifecycle (Initialise ->     *)
(*     Consume -> Terminate) and Trader::init;                             *)
(*   - src/portfolio/position.rs : Position enter / update / exit,         *)
(*     EquityPoint and the PositionBuilder;                                *)
(*   - src/portfolio/error.rs    : the PortfolioError kinds.               *)
(*                                                                         *)
(* f64 values are modelled as signed rationals with the IEEE-754 special   *)
(* values the code can produce (signed zero, infinities, NaN); rounding of *)
(* finite results is not modelled.                                         *)
(***************************************************************************)
EXTENDS Integers, Sequences, FiniteSets, TLC

(***************************************************************************)
(* Bounds of the model.                                                    *)
(***************************************************************************)
\* largest magnitude of a fill quantity
MaxQty == 2
\* largest fill_value_gross
MaxValue == 2
\* largest fee level of a fill (level k has the items k, 2k, 4k)
MaxFee == 1
\* number of distinct trace ids / timestamps carried by events
MaxTrace == 2
\* largest close price of a market bar
MaxClose == 2
\* largest portfolio value handed to exit
MaxEquity == 1
\* number of update / exit calls made on one Position
MaxOps == 2
\* largest number of events a feed yields before it closes
MaxFeed == 3
\* largest magnitude of the profit or loss of a Position given to an EquityPoint
MaxPnl == 1
\* latest timestamp of a Position given to an EquityPoint
MaxStamp == 2
\* number of EquityPoint::update calls made on one EquityPoint
MaxUpdates == 2

(***************************************************************************)
(* Option<T>: None is the empty sequence, Some(x) the one-element one.     *)
(***************************************************************************)
None == <<>>

Some(x) == <<x>>

IsSome(o) == Len(o) = 1

Unwrap(o) == o[1]

(***************************************************************************)
(* f64.  [s |-> sign bit, n |-> numerator, d |-> denominator];             *)
(* d = 0 /\ n = 1 is an infinity, d = 0 /\ n = 0 is NaN, n = 0 /\ d = 1 is *)
(* a (signed) zero.                                                        *)
(***************************************************************************)
RECURSIVE GCD(_, _)
GCD(a, b) == IF b = 0 THEN a ELSE GCD(b, a % b)

NaN == [s |-> 0, n |-> 0, d |-> 0]

Inf(sign) == [s |-> sign, n |-> 1, d |-> 0]

Zero(sign) == [s |-> sign, n |-> 0, d |-> 1]

IsNaN(x) == x.n = 0 /\ x.d = 0

IsInf(x) == x.n = 1 /\ x.d = 0

IsZero(x) == x.n = 0 /\ x.d = 1

Norm(sign, n, d) ==
    IF n = 0 THEN Zero(sign)
    ELSE LET g == GCD(n, d) IN [s |-> sign, n |-> n \div g, d |-> d \div g]

\* the f64 of an integer literal
F(i) == IF i < 0 THEN [s |-> 1, n |-> -i, d |-> 1] ELSE [s |-> 0, n |-> i, d |-> 1]

NegZero == Zero(1)

Xor(a, b) == IF a = b THEN 0 ELSE 1

FNeg(x) == [x EXCEPT !.s = 1 - @]

FAbs(x) == [x EXCEPT !.s = 0]

is_sign_positive(x) == x.s = 0

is_sign_negative(x) == x.s = 1

FAdd(x, y) ==
    IF IsNaN(x) \/ IsNaN(y) THEN NaN
    ELSE IF IsInf(x) /\ IsInf(y) THEN (IF x.s = y.s THEN x ELSE NaN)
    ELSE IF IsInf(x) THEN x
    ELSE IF IsInf(y) THEN y
    ELSE LET xs == IF x.s = 1 THEN -x.n ELSE x.n
             ys == IF y.s = 1 THEN -y.n ELSE y.n
             a  == xs * y.d + ys * x.d
         IN  IF a = 0 THEN Zero(IF x.s = 1 /\ y.s = 1 THEN 1 ELSE 0)
             ELSE IF a < 0 THEN Norm(1, -a, x.d * y.d)
             ELSE Norm(0, a, x.d * y.d)

FSub(x, y) == FAdd(x, FNeg(y))

FMul(x, y) ==
    IF IsNaN(x) \/ IsNaN(y) THEN NaN
    ELSE IF (IsInf(x) /\ IsZero(y)) \/ (IsZero(x) /\ IsInf(y)) THEN NaN
    ELSE IF IsInf(x) \/ IsInf(y) THEN Inf(Xor(x.s, y.s))
    ELSE Norm(Xor(x.s, y.s), x.n * y.n, x.d * y.d)

FDiv(x, y) ==
    IF IsNaN(x) \/ IsNaN(y) THEN NaN
    ELSE IF (IsZero(x) /\ IsZero(y)) \/ (IsInf(x) /\ IsInf(y)) THEN NaN
    ELSE IF IsInf(x) \/ IsZero(y) THEN Inf(Xor(x.s, y.s))
    ELSE IF IsInf(y) THEN Zero(Xor(x.s, y.s))
    ELSE Norm(Xor(x.s, y.s), x.n * y.d, x.d * y.n)

\* f64 == : NaN equals nothing, the two zeros are equal
FEq(x, y) ==
    /\ ~IsNaN(x)
    /\ ~IsNaN(y)
    /\ \/ x = y
       \/ IsZero(x) /\ IsZero(y)

\* f64 > 0.0 and f64 < 0.0
FPos(x) == ~IsNaN(x) /\ ~IsZero(x) /\ x.s = 0

FNegative(x) == ~IsNaN(x) /\ ~IsZero(x) /\ x.s = 1

(***************************************************************************)
(* Results and errors.                                                     *)
(***************************************************************************)
PortfolioError ==
    { "BuilderIncomplete", "CalcProfitLossError", "ParseEntryDirectionError",
      "CannotEnterPositionWithExitFill", "CannotExitPositionWithEntryFill" }

Ok(v) == [ok |-> TRUE, val |-> v]

Err(e) == [ok |-> FALSE, err |-> e]

\* the unit value ()
Unit == "()"

(***************************************************************************)
(* Fills, fees and market events (the shapes the core consumes).           *)
(***************************************************************************)
Decision == {"Long", "Short", "CloseLong", "CloseShort"}

is_entry(decision) == decision \in {"Long", "Short"}

FeesDefault == [exchange |-> F(0), slippage |-> F(0), network |-> F(0)]

calculate_total_fees(fees) == FAdd(FAdd(fees.exchange, fees.slippage), fees.network)

Quantities == {F(q) : q \in (-MaxQty)..MaxQty} \cup {NegZero}

Values == {F(v) : v \in 1..MaxValue}

FeeSet == {[exchange |-> F(k), slippage |-> F(2 * k), network |-> F(4 * k)] : k \in 0..MaxFee}

\* trace id k comes with market (bar) time k and fill time k + 1
TraceId(k) == <<"uuid", k>>

Fills ==
    { [ trace_id         |-> TraceId(k),
        timestamp        |-> k + 1,
        market_meta      |-> [timestamp |-> k],
        exchange         |-> "BINANCE",
        symbol           |-> "ETH-USD",
        decision         |-> dec,
        quantity         |-> q,
        fill_value_gross |-> v,
        fees             |-> fee ] :
      k \in 1..MaxTrace, dec \in Decision, q \in Quantities, v \in Values, fee \in FeeSet }

Markets ==
    { [ trace_id  |-> TraceId(k),
        timestamp |-> k,
        bar       |-> [close |-> F(c)] ] :
      k \in 1..MaxTrace, c \in 1..MaxClose }

PortfolioValues == {F(v) : v \in 0..MaxEquity}

(***************************************************************************)
(* Position (src/portfolio/position.rs).                                   *)
(***************************************************************************)
\* an average price that keeps the sign of the quantity
calculate_avg_price_gross_Signed(fill) == FDiv(fill.fill_value_gross, fill.quantity)

calculate_avg_price_gross(fill) == FAbs(FDiv(fill.fill_value_gross, fill.quantity))

\* a direction parse that does not tell the exit decisions apart
parse_entry_direction_WrongError(fill) ==
    IF fill.decision = "Long" /\ is_sign_positive(fill.quantity) THEN Ok("Long")
    ELSE IF fill.decision = "Short" /\ is_sign_negative(fill.quantity) THEN Ok("Short")
    ELSE Err("ParseEntryDirectionError")

\* a direction parse that takes every well-signed entry for a Long
parse_entry_direction_AlwaysLong(fill) ==
    IF fill.decision = "Long" /\ is_sign_positive(fill.quantity) THEN Ok("Long")
    ELSE IF fill.decision = "Short" /\ is_sign_negative(fill.quantity) THEN Ok("Long")
    ELSE IF fill.decision \in {"CloseLong", "CloseShort"}
         THEN Err("CannotEnterPositionWithExitFill")
    ELSE Err("ParseEntryDirectionError")

\* a direction parse that reports a wrongly signed quantity as a calculation error
parse_entry_direction_CalcError(fill) ==
    IF fill.decision = "Long" /\ is_sign_positive(fill.quantity) THEN Ok("Long")
    ELSE IF fill.decision = "Short" /\ is_sign_negative(fill.quantity) THEN Ok("Short")
    ELSE IF fill.decision \in {"CloseLong", "CloseShort"}
         THEN Err("CannotEnterPositionWithExitFill")
    ELSE Err("CalcProfitLossError")

parse_entry_direction(fill) ==
    IF fill.decision = "Long" /\ is_sign_positive(fill.quantity) THEN Ok("Long")
    ELSE IF fill.decision = "Short" /\ is_sign_negative(fill.quantity) THEN Ok("Short")
    ELSE IF fill.decision \in {"CloseLong", "CloseShort"}
         THEN Err("CannotEnterPositionWithExitFill")
    ELSE Err("ParseEntryDirectionError")

\* an unrealised profit that charges the entry fees once
calculate_unreal_profit_loss_SingleFee(self) ==
    IF self.direction = "Long"
    THEN FSub(FSub(self.current_value_gross, self.enter_value_gross), self.enter_fees_total)
    ELSE FSub(FSub(self.enter_value_gross, self.current_value_gross), self.enter_fees_total)

calculate_unreal_profit_loss(self) ==
    LET approx_total_fees == FMul(self.enter_fees_total, F(2))
    IN  IF self.direction = "Long"
        THEN FSub(FSub(self.current_value_gross, self.enter_value_gross), approx_total_fees)
        ELSE FSub(FSub(self.enter_value_gross, self.current_value_gross), approx_total_fees)

\* a realised result that keeps the 2x entry-fee approximation
calculate_result_profit_loss_Approx(self) ==
    LET total_fees == FMul(self.enter_fees_total, F(2))
    IN  IF self.direction = "Long"
        THEN FSub(FSub(self.exit_value_gross, self.enter_value_gross), total_fees)
        ELSE FSub(FSub(self.enter_value_gross, self.exit_value_gross), total_fees)

\* a realised result that charges the exit fees only
calculate_result_profit_loss_ExitFeesOnly(self) ==
    LET total_fees == self.exit_fees_total
    IN  IF self.direction = "Long"
        THEN FSub(FSub(self.exit_value_gross, self.enter_value_gross), total_fees)
        ELSE FSub(FSub(self.enter_value_gross, self.exit_value_gross), total_fees)

calculate_result_profit_loss(self) ==
    LET total_fees == FAdd(self.enter_fees_total, self.exit_fees_total)
    IN  IF self.direction = "Long"
        THEN FSub(FSub(self.exit_value_gross, self.enter_value_gross), total_fees)
        ELSE FSub(FSub(self.enter_value_gross, self.exit_value_gross), total_fees)

Position_enter(fill) ==
    LET metadata ==
            [ enter_trace_id        |-> fill.trace_id,
              enter_bar_timestamp   |-> fill.market_meta.timestamp,
              last_update_trace_id  |-> fill.trace_id,
              last_update_timestamp |-> fill.timestamp,
              exit_trace_id         |-> None,
              exit_bar_timestamp    |-> None,
              exit_equity_point     |-> None ]
        enter_fees_total == calculate_total_fees(fill.fees)
        enter_avg_price_gross == calculate_avg_price_gross(fill)
        unreal_profit_loss == FMul(FNeg(enter_fees_total), F(2))
        direction == parse_entry_direction(fill)
    IN  IF ~direction.ok THEN Err(direction.err)
        ELSE Ok([ meta                  |-> metadata,
                  exchange              |-> fill.exchange,
                  symbol                |-> fill.symbol,
                  direction             |-> direction.val,
                  quantity              |-> fill.quantity,
                  enter_fees            |-> fill.fees,
                  enter_fees_total      |-> enter_fees_total,
                  enter_avg_price_gross |-> enter_avg_price_gross,
                  enter_value_gross     |-> fill.fill_value_gross,
                  exit_fees             |-> FeesDefault,
                  exit_fees_total       |-> F(0),
                  exit_avg_price_gross  |-> F(0),
                  exit_value_gross      |-> F(0),
                  current_symbol_price  |-> enter_avg_price_gross,
                  current_value_gross   |-> fill.fill_value_gross,
                  unreal_profit_loss    |-> unreal_profit_loss,
                  result_profit_loss    |-> F(0) ])

\* an update that also books the unrealised profit as the result
Position_update_BooksResult(self, market) ==
    LET s1 == [self EXCEPT !.meta.last_update_trace_id = market.trace_id,
                           !.meta.last_update_timestamp = market.timestamp,
                           !.current_symbol_price = market.bar.close,
                           !.current_value_gross = FMul(market.bar.close, FAbs(self.quantity))]
        s2 == [s1 EXCEPT !.unreal_profit_loss = calculate_unreal_profit_loss(s1)]
    IN  [s2 EXCEPT !.result_profit_loss = s2.unreal_profit_loss]

\* an update that re-bases the entry value on the current value
Position_update_Rebases(self, market) ==
    LET s1 == [self EXCEPT !.meta.last_update_trace_id = market.trace_id,
                           !.meta.last_update_timestamp = market.timestamp,
                           !.current_symbol_price = market.bar.close,
                           !.current_value_gross = FMul(market.bar.close, FAbs(self.quantity))]
        s2 == [s1 EXCEPT !.unreal_profit_loss = calculate_unreal_profit_loss(s1)]
    IN  [s2 EXCEPT !.enter_value_gross = s2.current_value_gross]

Position_update(self, market) ==
    LET s1 == [self EXCEPT !.meta.last_update_trace_id = market.trace_id,
                           !.meta.last_update_timestamp = market.timestamp,
                           !.current_symbol_price = market.bar.close,
                           !.current_value_gross = FMul(market.bar.close, FAbs(self.quantity))]
    IN  [s1 EXCEPT !.unreal_profit_loss = calculate_unreal_profit_loss(s1)]

\* an exit without the guard on the fill's decision
Position_exit_NoGuard(self, portfolio_value, fill) ==
    LET s1 == [self EXCEPT !.exit_fees = fill.fees,
                           !.exit_fees_total = calculate_total_fees(fill.fees),
                           !.exit_value_gross = fill.fill_value_gross,
                           !.exit_avg_price_gross = calculate_avg_price_gross(fill)]
        s2 == [s1 EXCEPT !.result_profit_loss = calculate_result_profit_loss(s1)]
        s3 == [s2 EXCEPT !.unreal_profit_loss = s2.result_profit_loss]
        value == FAdd(portfolio_value, s3.result_profit_loss)
    IN  [ res  |-> Ok(Unit),
          self |-> [s3 EXCEPT !.meta.last_update_trace_id = fill.trace_id,
                              !.meta.last_update_timestamp = fill.timestamp,
                              !.meta.exit_trace_id = Some(fill.trace_id),
                              !.meta.exit_equity_point =
                                  Some([equity |-> value,
                                        timestamp |-> fill.market_meta.timestamp])] ]

\* an exit that snapshots the portfolio value without the result added
Position_exit_StaleValue(self, portfolio_value, fill) ==
    IF is_entry(fill.decision)
    THEN [res |-> Err("CannotExitPositionWithEntryFill"), self |-> self]
    ELSE LET s1 == [self EXCEPT !.exit_fees = fill.fees,
                                !.exit_fees_total = calculate_total_fees(fill.fees),
                                !.exit_value_gross = fill.fill_value_gross,
                                !.exit_avg_price_gross = calculate_avg_price_gross(fill)]
             s2 == [s1 EXCEPT !.result_profit_loss = calculate_result_profit_loss(s1)]
             s3 == [s2 EXCEPT !.unreal_profit_loss = s2.result_profit_loss]
         IN  [ res  |-> Ok(Unit),
               self |-> [s3 EXCEPT !.meta.last_update_trace_id = fill.trace_id,
                                   !.meta.last_update_timestamp = fill.timestamp,
                                   !.meta.exit_trace_id = Some(fill.trace_id),
                                   !.meta.exit_equity_point =
                                       Some([equity |-> portfolio_value,
                                             timestamp |-> fill.market_meta.timestamp])] ]

\* an exit that refuses a closing decision of the other direction
Position_exit_ChecksDirection(self, portfolio_value, fill) ==
    IF \/ is_entry(fill.decision)
       \/ fill.decision = "CloseLong" /\ self.direction # "Long"
       \/ fill.decision = "CloseShort" /\ self.direction # "Short"
    THEN [res |-> Err("CannotExitPositionWithEntryFill"), self |-> self]
    ELSE CHOOSE out \in
             { [ res  |-> Ok(Unit),
                 self |-> [s3 EXCEPT !.meta.last_update_trace_id = fill.trace_id,
                                     !.meta.last_update_timestamp = fill.timestamp,
                                     !.meta.exit_trace_id = Some(fill.trace_id),
                                     !.meta.exit_equity_point =
                                         Some([equity |-> FAdd(portfolio_value, s3.result_profit_loss),
                                               timestamp |-> fill.market_meta.timestamp])] ] :
               s3 \in { [s2 EXCEPT !.unreal_profit_loss = s2.result_profit_loss] :
               s2 \in { [s1 EXCEPT !.result_profit_loss = calculate_result_profit_loss(s1)] :
               s1 \in { [self EXCEPT !.exit_fees = fill.fees,
                                     !.exit_fees_total = calculate_total_fees(fill.fees),
                                     !.exit_value_gross = fill.fill_value_gross,
                                     !.exit_avg_price_gross = calculate_avg_price_gross(fill)] } } } } : TRUE

\* an exit that checks the fill's decision after it has stored the exit fees
Position_exit_GuardsLate(self, portfolio_value, fill) ==
    IF is_entry(fill.decision)
    THEN [res  |-> Err("CannotExitPositionWithEntryFill"),
          self |-> [self EXCEPT !.exit_fees = fill.fees,
                                !.exit_fees_total = calculate_total_fees(fill.fees)]]
    ELSE CHOOSE out \in
             { [ res  |-> Ok(Unit),
                 self |-> [s3 EXCEPT !.meta.last_update_trace_id = fill.trace_id,
                                     !.meta.last_update_timestamp = fill.timestamp,
                                     !.meta.exit_trace_id = Some(fill.trace_id),
                                     !.meta.exit_equity_point =
                                         Some([equity |-> FAdd(portfolio_value, s3.result_profit_loss),
                                               timestamp |-> fill.market_meta.timestamp])] ] :
               s3 \in { [s2 EXCEPT !.unreal_profit_loss = s2.result_profit_loss] :
               s2 \in { [s1 EXCEPT !.result_profit_loss = calculate_result_profit_loss(s1)] :
               s1 \in { [self EXCEPT !.exit_fees = fill.fees,
                                     !.exit_fees_total = calculate_total_fees(fill.fees),
                                     !.exit_value_gross = fill.fill_value_gross,
                                     !.exit_avg_price_gross = calculate_avg_price_gross(fill)] } } } } : TRUE

\* exit(&mut self, portfolio_value, fill): the result and self after the call;
\* s1, s2, s3 are self after each group of assignments, each bound once
Position_exit(self, portfolio_value, fill) ==
    IF is_entry(fill.decision)
    THEN [res |-> Err("CannotExitPositionWithEntryFill"), self |-> self]
    ELSE CHOOSE out \in
             { [ res  |-> Ok(Unit),
                 self |-> [s3 EXCEPT !.meta.last_update_trace_id = fill.trace_id,
                                     !.meta.last_update_timestamp = fill.timestamp,
                                     !.meta.exit_trace_id = Some(fill.trace_id),
                                     !.meta.exit_equity_point =
                                         Some([equity |-> FAdd(portfolio_value, s3.result_profit_loss),
                                               timestamp |-> fill.market_meta.timestamp])] ] :
               s3 \in { [s2 EXCEPT !.unreal_profit_loss = s2.result_profit_loss] :
               s2 \in { [s1 EXCEPT !.result_profit_loss = calculate_result_profit_loss(s1)] :
               s1 \in { [self EXCEPT !.exit_fees = fill.fees,
                                     !.exit_fees_total = calculate_total_fees(fill.fees),
                                     !.exit_value_gross = fill.fill_value_gross,
                                     !.exit_avg_price_gross = calculate_avg_price_gross(fill)] } } } } : TRUE

\* PositionMeta::default(), with the value Utc::now() yields
PositionMeta_default(now) ==
    [ enter_trace_id        |-> TraceId(0),
      enter_bar_timestamp   |-> now,
      last_update_trace_id  |-> TraceId(0),
      last_update_timestamp |-> now,
      exit_trace_id         |-> None,
      exit_bar_timestamp    |-> None,
      exit_equity_point     |-> None ]

\* Position::default(), with the value Utc::now() yields
Position_default(now) ==
    [ meta                  |-> PositionMeta_default(now),
      exchange              |-> "BINANCE",
      symbol                |-> "ETH-USD",
      direction             |-> "Long",
      quantity              |-> F(1),
      enter_fees            |-> FeesDefault,
      enter_fees_total      |-> F(0),
      enter_avg_price_gross |-> F(100),
      enter_value_gross     |-> F(100),
      exit_fees             |-> FeesDefault,
      exit_fees_total       |-> F(0),
      exit_avg_price_gross  |-> F(0),
      exit_value_gross      |-> F(0),
      current_symbol_price  |-> F(100),
      current_value_gross   |-> F(100),
      unreal_profit_loss    |-> F(0),
      result_profit_loss    |-> F(0) ]

(***************************************************************************)
(* PositionBuilder (src/portfolio/position.rs).                            *)
(***************************************************************************)
\* the fields of a PositionBuilder, one Option per field of Position
BuilderFields ==
    { "meta", "exchange", "symbol", "direction", "quantity",
      "enter_fees", "enter_fees_total", "enter_avg_price_gross", "enter_value_gross",
      "exit_fees", "exit_fees_total", "exit_avg_price_gross", "exit_value_gross",
      "current_symbol_price", "current_value_gross",
      "unreal_profit_loss", "result_profit_loss" }

\* the values handed to the setter of a field
BuilderValues(field) ==
    IF field = "direction" THEN {"Long", "Short"}
    ELSE {Position_default(0)[field]}

\* PositionBuilder::new()
PositionBuilder_new == [field \in BuilderFields |-> None]

\* a setter that keeps the value of the first call
PositionBuilder_set_KeepsFirst(self, field, value) ==
    IF self[field] = None THEN [self EXCEPT ![field] = Some(value)] ELSE self

\* the setter of a field: Self { field: Some(value), ..self }
PositionBuilder_set(self, field, value) == [self EXCEPT ![field] = Some(value)]

\* a build that fills unset derived fields with a default
PositionBuilder_build_DefaultsDerived(self) ==
    LET derived == { "enter_fees_total", "enter_avg_price_gross", "exit_fees_total",
                     "exit_avg_price_gross", "current_value_gross",
                     "unreal_profit_loss", "result_profit_loss" }
    IN  IF \E field \in BuilderFields \ derived : self[field] = None
        THEN Err("BuilderIncomplete")
        ELSE Ok([field \in BuilderFields |->
                    IF self[field] = None THEN F(0) ELSE Unwrap(self[field])])

\* build(self): BuilderIncomplete unless every field is Some
PositionBuilder_build(self) ==
    IF \E field \in BuilderFields : self[field] = None
    THEN Err("BuilderIncomplete")
    ELSE Ok([field \in BuilderFields |-> Unwrap(self[field])])

(***************************************************************************)
(* EquityPoint (src/portfolio/position.rs).                                *)
(***************************************************************************)
\* the timestamps of the Positions and EquityPoints of the equity runs
Stamps == 0..MaxStamp

\* the profits and losses of the Positions of the equity runs
PnLs == {F(v) : v \in (-MaxPnl)..MaxPnl}

\* EquityPoint { equity, timestamp }: the values an equity run starts from
EquityPoints == {[equity |-> e, timestamp |-> t] : e \in PortfolioValues, t \in Stamps}

\* the Positions handed to EquityPoint::update: open ones (no exit bar
\* timestamp) and closed ones, with any unrealised and realised profit
EquityPositions ==
    { [Position_default(0) EXCEPT !.unreal_profit_loss = unreal,
                                   !.result_profit_loss = result,
                                   !.meta.last_update_timestamp = last,
                                   !.meta.exit_bar_timestamp = exit] :
      unreal \in PnLs, result \in PnLs, last \in Stamps,
      exit \in {None} \cup {Some(t) : t \in Stamps} }

\* an update that recomputes the equity from the Position alone
EquityPoint_update_Recomputes(self, position) ==
    IF ~IsSome(position.meta.exit_bar_timestamp)
    THEN [ equity    |-> position.unreal_profit_loss,
           timestamp |-> position.meta.last_update_timestamp ]
    ELSE [ equity    |-> position.result_profit_loss,
           timestamp |-> Unwrap(position.meta.exit_bar_timestamp) ]

\* an update that never moves the timestamp back
EquityPoint_update_KeepsLatest(self, position) ==
    LET latest(t) == IF t > self.timestamp THEN t ELSE self.timestamp
    IN  IF ~IsSome(position.meta.exit_bar_timestamp)
        THEN [ equity    |-> FAdd(self.equity, position.unreal_profit_loss),
               timestamp |-> latest(position.meta.last_update_timestamp) ]
        ELSE [ equity    |-> FAdd(self.equity, position.result_profit_loss),
               timestamp |-> latest(Unwrap(position.meta.exit_bar_timestamp)) ]

EquityPoint_update(self, position) ==
    IF ~IsSome(position.meta.exit_bar_timestamp)
    THEN [ equity    |-> FAdd(self.equity, position.unreal_profit_loss),
           timestamp |-> position.meta.last_update_timestamp ]
    ELSE [ equity    |-> FAdd(self.equity, position.result_profit_loss),
           timestamp |-> Unwrap(position.meta.exit_bar_timestamp) ]

(***************************************************************************)
(* Portfolio capabilities the lifecycle depends on (Initialiser,           *)
(* MarketUpdater, AccountUpdater).  A Portfolio holds its equity curve     *)
(* sample and at most one open Position.                                   *)
(***************************************************************************)
InitErrors == {"InitError1", "InitError2"}

Portfolios ==
    { [equity |-> [equity |-> v, timestamp |-> 0], position |-> None] :
      v \in PortfolioValues }

\* what Portfolio::init(instruments, &execution_tx, &mut feed) can return
InitResults == {Ok(p) : p \in Portfolios} \cup {Err(e) : e \in InitErrors}

\* MarketUpdater: drives Position::update for the open Position
MarketUpdater_update(portfolio, market) ==
    IF IsSome(portfolio.position)
    THEN [portfolio EXCEPT !.position = Some(Position_update(Unwrap(@), market))]
    ELSE portfolio

\* AccountUpdater: routes a fill to enter (no open Position) or exit (open
\* Position, which then leaves the open set) and updates the equity curve
AccountUpdater_update(portfolio, fill) ==
    IF ~IsSome(portfolio.position)
    THEN CHOOSE out \in
             { IF r.ok
               THEN Ok([ equity   |-> EquityPoint_update(portfolio.equity, r.val),
                         position |-> Some(r.val) ])
               ELSE Err(r.err) :
               r \in {Position_enter(fill)} } : TRUE
    ELSE CHOOSE out \in
             { IF r.res.ok
               THEN Ok([ equity   |-> EquityPoint_update(portfolio.equity, r.self),
                         position |-> None ])
               ELSE Err(r.res.err) :
               r \in {Position_exit(Unwrap(portfolio.position),
                                    portfolio.equity.equity, fill)} } : TRUE

(***************************************************************************)
(* Engine and Trader (src/engine/state/mod.rs).                            *)
(***************************************************************************)
Initialise(instruments) == [instruments |-> instruments]

Consume(portfolio) == [portfolio |-> portfolio]

Terminate(reason) == [reason |-> reason]

Trader(feed, strategy, execution_tx, state) ==
    [feed |-> feed, strategy |-> strategy, execution_tx |-> execution_tx, state |-> state]

Engine(tag, trader) == [tag |-> tag, trader |-> trader]

\* the arguments of the call Portfolio::init(instruments, &execution_tx,
\* &mut feed) in init(self): the instruments moved out of the state payload,
\* the execution channel and the feed
Portfolio_init_args(self) ==
    [instruments |-> self.state.instruments, execution_tx |-> self.execution_tx,
     feed |-> self.feed]

\* init() that puts the strategy handle where the feed handle belongs
Trader_init_SwapsHandles(self, init_result) ==
    IF init_result.ok
    THEN Engine("Consume", Trader(self.feed, self.strategy, self.execution_tx,
                                  Consume(init_result.val)))
    ELSE Engine("Terminate", Trader(self.strategy, self.feed, self.execution_tx,
                                    Terminate(Err(init_result.err))))

\* init() that loses the initialiser's error
Trader_init_DropsError(self, init_result) ==
    IF init_result.ok
    THEN Engine("Consume", Trader(self.feed, self.strategy, self.execution_tx,
                                  Consume(init_result.val)))
    ELSE Engine("Terminate", Trader(self.feed, self.strategy, self.execution_tx,
                                    Terminate(Ok(Unit))))

\* init() that stays in Initialise when the initialiser fails
Trader_init_Retries(self, init_result) ==
    IF init_result.ok
    THEN Engine("Consume", Trader(self.feed, self.strategy, self.execution_tx,
                                  Consume(init_result.val)))
    ELSE Engine("Initialise", self)

\* init() that goes on to Consume with an unvalidated Portfolio
Trader_init_ConsumesOnError(self, init_result) ==
    IF init_result.ok
    THEN Engine("Consume", Trader(self.feed, self.strategy, self.execution_tx,
                                  Consume(init_result.val)))
    ELSE Engine("Consume", Trader(self.feed, self.strategy, self.execution_tx,
                                  Consume([equity |-> [equity |-> F(0), timestamp |-> 0],
                                           position |-> None])))

\* Trader<Strategy, Initialise<Portfolio>>::init(self), where init_result is
\* what Portfolio::init(instruments, &execution_tx, &mut feed) returned
Trader_init(self, init_result) ==
    IF init_result.ok
    THEN Engine("Consume", Trader(self.feed, self.strategy, self.execution_tx,
                                  Consume(init_result.val)))
    ELSE Engine("Terminate", Trader(self.feed, self.strategy, self.execution_tx,
                                    Terminate(Err(init_result.err))))

\* the transition Consume -> Terminate
Trader_terminate(self, reason) ==
    Engine("Terminate", Trader(self.feed, self.strategy, self.execution_tx,
                               Terminate(reason)))

(***************************************************************************)
(* The feed: the events a run can be given.                                *)
(***************************************************************************)
FeedFills ==
    { f \in Fills :
        /\ f.quantity \in {F(1), F(-1)}
        /\ f.fill_value_gross = F(MaxValue)
        /\ f.fees.exchange = F(MaxFee)
        /\ f.market_meta.timestamp = 1 }

FeedMarkets == {m \in Markets : m.timestamp = MaxTrace}

FeedEvents ==
    {[kind |-> "Market", market |-> m] : m \in FeedMarkets}
    \cup {[kind |-> "Account", fill |-> f] : f \in FeedFills}
    \cup {[kind |-> "Command"]}

RECURSIVE SeqsUpTo(_, _)
SeqsUpTo(S, n) ==
    IF n = 0 THEN {<<>>}
    ELSE LET shorter == SeqsUpTo(S, n - 1)
         IN  shorter \cup {Append(q, e) : q \in {t \in shorter : Len(t) = n - 1}, e \in S}

Feeds == SeqsUpTo(FeedEvents, MaxFeed)

InstrumentMaps == {[BINANCE |-> <<"ETH-USD">>]}

(***************************************************************************)
(* State.                                                                  *)
(***************************************************************************)
VARIABLES
    engine,       \* the Engine: the Trader in its lifecycle state
    feed_events,  \* the events the feed yields, in feed order
    pulled,       \* number of events pulled from the feed
    inflight,     \* Option: the event being handled and the stage it is at
    processed,    \* the events handled to completion, in the order handled
    applied,      \* number of events applied to the Portfolio
    orders,       \* the orders sent on the execution channel
    init_result,  \* Option: what Portfolio::init returned
    init_calls,   \* number of calls of Portfolio::init
    init_args,    \* Option: the arguments Portfolio::init was called with
    pos,          \* Option<Position>: the Position under study
    call,         \* the last Position operation called, the result it returned
                  \* and, for enter, the fill it was given
    ops,          \* number of update / exit calls made on the Position
    equity_point,          \* the EquityPoint under study
    equity_start,          \* the EquityPoint as it was constructed
    equity_contributions,  \* sum of the profits and losses added to it so far
    equity_updates,        \* number of EquityPoint::update calls made on it
    builder,               \* the PositionBuilder under study
    built                  \* Option: what build returned, once it was called

trader_vars == <<engine, feed_events, pulled, inflight, processed, applied, orders,
                 init_result, init_calls, init_args>>

pos_vars == <<pos, call, ops>>

equity_vars == <<equity_point, equity_start, equity_contributions, equity_updates>>

builder_vars == <<builder, built>>

vars == <<trader_vars, pos_vars, equity_vars, builder_vars>>

\* no PositionBuilder is under study
NoBuilder ==
    /\ builder = PositionBuilder_new
    /\ built = None

\* no EquityPoint is under study
NoEquity ==
    /\ equity_point = [equity |-> F(0), timestamp |-> 0]
    /\ equity_start = equity_point
    /\ equity_contributions = F(0)
    /\ equity_updates = 0

NoCall == [op |-> "none", fill |-> None, result |-> Ok(Unit)]

(***************************************************************************)
(* Spec: one run of a Trader.                                              *)
(***************************************************************************)
Init ==
    /\ engine \in { Engine("Initialise", Trader("feed", "strategy", "execution_tx",
                                                 Initialise(ins))) :
                    ins \in InstrumentMaps }
    /\ feed_events \in Feeds
    /\ pulled = 0
    /\ inflight = None
    /\ processed = <<>>
    /\ applied = 0
    /\ orders = <<>>
    /\ init_result = None
    /\ init_calls = 0
    /\ init_args = None
    /\ pos = None
    /\ call = NoCall
    /\ ops = 0
    /\ NoEquity
    /\ NoBuilder

\* an init that calls the initialiser again when the first call failed
TraderInit_CallsAgain ==
    /\ engine.tag = "Initialise"
    /\ \E first \in InitResults, second \in InitResults :
         LET r == IF first.ok THEN first ELSE second
         IN  /\ init_result' = Some(r)
             /\ engine' = Trader_init(engine.trader, r)
             /\ init_calls' = init_calls + (IF first.ok THEN 1 ELSE 2)
    /\ init_args' = Some(Portfolio_init_args(engine.trader))
    /\ UNCHANGED <<feed_events, pulled, inflight, processed, applied, orders, pos_vars, equity_vars, builder_vars>>

\* Engine::Initialise(trader) => trader.init()
TraderInit ==
    /\ engine.tag = "Initialise"
    /\ \E r \in InitResults :
         /\ init_result' = Some(r)
         /\ engine' = Trader_init(engine.trader, r)
    /\ init_calls' = init_calls + 1
    /\ init_args' = Some(Portfolio_init_args(engine.trader))
    /\ UNCHANGED <<feed_events, pulled, inflight, processed, applied, orders, pos_vars, equity_vars, builder_vars>>

\* a pull that does not wait for the event in hand to be handled
ConsumePull_Reentrant ==
    /\ engine.tag = "Consume"
    /\ pulled < Len(feed_events)
    /\ inflight' = Some([event |-> feed_events[pulled + 1], stage |-> "portfolio"])
    /\ pulled' = pulled + 1
    /\ UNCHANGED <<engine, feed_events, processed, applied, orders, init_result,
                   init_calls, init_args, pos_vars, equity_vars, builder_vars>>

\* Consume: pull the next event from the feed
ConsumePull ==
    /\ engine.tag = "Consume"
    /\ inflight = None
    /\ pulled < Len(feed_events)
    /\ inflight' = Some([event |-> feed_events[pulled + 1], stage |-> "portfolio"])
    /\ pulled' = pulled + 1
    /\ UNCHANGED <<engine, feed_events, processed, applied, orders, init_result,
                   init_calls, init_args, pos_vars, equity_vars, builder_vars>>

\* a Consume loop that keeps waiting on a closed feed
ConsumeFeedClosed_KeepsWaiting ==
    /\ engine.tag = "Consume"
    /\ inflight = None
    /\ pulled = Len(feed_events)
    /\ UNCHANGED vars

\* Consume: the feed is exhausted => Terminate { reason: Ok(()) }
ConsumeFeedClosed ==
    /\ engine.tag = "Consume"
    /\ inflight = None
    /\ pulled = Len(feed_events)
    /\ engine' = Trader_terminate(engine.trader, Ok(Unit))
    /\ UNCHANGED <<feed_events, pulled, inflight, processed, applied, orders,
                   init_result, init_calls, init_args, pos_vars, equity_vars, builder_vars>>

\* Consume: a market event is applied to the Portfolio's MarketUpdater
ConsumeMarketPortfolio ==
    /\ engine.tag = "Consume"
    /\ IsSome(inflight)
    /\ Unwrap(inflight).event.kind = "Market"
    /\ Unwrap(inflight).stage = "portfolio"
    /\ engine' = [engine EXCEPT !.trader.state.portfolio =
                      MarketUpdater_update(@, Unwrap(inflight).event.market)]
    /\ applied' = applied + 1
    /\ inflight' = Some([Unwrap(inflight) EXCEPT !.stage = "strategy"])
    /\ UNCHANGED <<feed_events, pulled, processed, orders, init_result, init_calls, init_args,
                   pos_vars, equity_vars, builder_vars>>

\* Consume: the market event is offered to the Strategy, whose signal may
\* produce an order that is forwarded on the execution channel
ConsumeMarketStrategy ==
    /\ engine.tag = "Consume"
    /\ IsSome(inflight)
    /\ Unwrap(inflight).event.kind = "Market"
    /\ Unwrap(inflight).stage = "strategy"
    /\ \E signal \in BOOLEAN :
         orders' = IF signal
                   THEN Append(orders, Unwrap(inflight).event.market.trace_id)
                   ELSE orders
    /\ processed' = Append(processed, Unwrap(inflight).event)
    /\ inflight' = None
    /\ UNCHANGED <<engine, feed_events, pulled, applied, init_result, init_calls, init_args,
                   pos_vars, equity_vars, builder_vars>>

\* an AccountUpdater error that is skipped instead of ending the run
ConsumeAccount_SkipsError ==
    /\ engine.tag = "Consume"
    /\ IsSome(inflight)
    /\ Unwrap(inflight).event.kind = "Account"
    /\ LET r == AccountUpdater_update(engine.trader.state.portfolio,
                                      Unwrap(inflight).event.fill)
       IN  engine' = IF r.ok
                     THEN [engine EXCEPT !.trader.state.portfolio = r.val]
                     ELSE engine
    /\ applied' = applied + 1
    /\ processed' = Append(processed, Unwrap(inflight).event)
    /\ inflight' = None
    /\ UNCHANGED <<feed_events, pulled, orders, init_result, init_calls, init_args, pos_vars, equity_vars, builder_vars>>

\* Consume: a fill is applied to the Portfolio's AccountUpdater; an error
\* of the AccountUpdater terminates the Trader
ConsumeAccount ==
    /\ engine.tag = "Consume"
    /\ IsSome(inflight)
    /\ Unwrap(inflight).event.kind = "Account"
    /\ LET r == AccountUpdater_update(engine.trader.state.portfolio,
                                      Unwrap(inflight).event.fill)
       IN  engine' = IF r.ok
                     THEN [engine EXCEPT !.trader.state.portfolio = r.val]
                     ELSE Trader_terminate(engine.trader, Err(r.err))
    /\ applied' = applied + 1
    /\ processed' = Append(processed, Unwrap(inflight).event)
    /\ inflight' = None
    /\ UNCHANGED <<feed_events, pulled, orders, init_result, init_calls, init_args, pos_vars, equity_vars, builder_vars>>

\* Consume: a command event requests the graceful shutdown
ConsumeCommand ==
    /\ engine.tag = "Consume"
    /\ IsSome(inflight)
    /\ Unwrap(inflight).event.kind = "Command"
    /\ engine' = Trader_terminate(engine.trader, Ok(Unit))
    /\ processed' = Append(processed, Unwrap(inflight).event)
    /\ inflight' = None
    /\ UNCHANGED <<feed_events, pulled, applied, orders, init_result, init_calls, init_args,
                   pos_vars, equity_vars, builder_vars>>

Next ==
    \/ TraderInit
    \/ ConsumePull
    \/ ConsumeFeedClosed
    \/ ConsumeMarketPortfolio
    \/ ConsumeMarketStrategy
    \/ ConsumeAccount
    \/ ConsumeCommand

Spec == Init /\ [][Next]_vars

(***************************************************************************)
(* Properties of the Trader lifecycle (checked under Spec).                *)
(***************************************************************************)

\* C1: init() yields Engine::Consume holding the portfolio the initialiser
\* returned when it returned Ok(portfolio), and Engine::Terminate whose
\* reason is Err of the initialiser's error when it returned Err(error);
\* nothing else.
C1_InitOutcome ==
    [][ (engine.tag = "Initialise" /\ init_calls' # init_calls) =>
          /\ IsSome(init_result')
          /\ LET r == Unwrap(init_result')
             IN  IF r.ok
                 THEN /\ engine'.tag = "Consume"
                      /\ engine'.trader.state = Consume(r.val)
                 ELSE /\ engine'.tag = "Terminate"
                      /\ engine'.trader.state = Terminate(Err(r.err)) ]_vars

C1_Witness ==
    /\ IsSome(init_result)
    /\ ~Unwrap(init_result).ok
    /\ engine.tag = "Terminate"
    /\ engine.trader.state.reason = Err(Unwrap(init_result).err)

\* C2: the lifecycle is Initialise, then Consume steps, then Terminate:
\* every step out of Initialise leaves it, no step re-enters it, and once in
\* Terminate the state tag and the reason never change.
C2_Lifecycle ==
    [][ /\ engine.tag = "Initialise" => engine'.tag \in {"Consume", "Terminate"}
        /\ engine.tag = "Consume" => engine'.tag \in {"Consume", "Terminate"}
        /\ engine.tag = "Terminate" => engine' = engine ]_vars

C2_Witness ==
    /\ engine.tag = "Terminate"
    /\ Len(processed) > 0

\* C3: an event is pulled, handled or applied to the Portfolio only after
\* the Portfolio initialiser has returned Ok; a Trader whose init() failed
\* processes no event.
C3_InitBeforeEvents ==
    (pulled > 0 \/ applied > 0 \/ IsSome(inflight) \/ Len(processed) > 0 \/ Len(orders) > 0)
        => (IsSome(init_result) /\ Unwrap(init_result).ok)

C3_Witness ==
    /\ applied > 0
    /\ IsSome(init_result)
    /\ Unwrap(init_result).ok

\* C4: a Trader in Consume goes to Terminate with reason Ok(()) on feed
\* exhaustion and on a shutdown command, to Terminate with reason Err(error)
\* on a dispatch error (the AccountUpdater's error), and stays in Consume on
\* every other step.
C4_ConsumeExits ==
    [][ engine.tag = "Consume" =>
          IF inflight = None
          THEN IF pulled = Len(feed_events)
               THEN engine' = Trader_terminate(engine.trader, Ok(Unit))
               ELSE engine' = engine
          ELSE LET ev == Unwrap(inflight).event
               IN  IF ev.kind = "Command"
                   THEN engine' = Trader_terminate(engine.trader, Ok(Unit))
                   ELSE IF ev.kind = "Account"
                   THEN LET r == AccountUpdater_update(engine.trader.state.portfolio, ev.fill)
                        IN  IF r.ok
                            THEN engine'.tag = "Consume"
                            ELSE engine' = Trader_terminate(engine.trader, Err(r.err))
                   ELSE engine'.tag = "Consume" ]_vars

C4_Witness ==
    /\ engine.tag = "Terminate"
    /\ IsSome(init_result)
    /\ Unwrap(init_result).ok
    /\ ~engine.trader.state.reason.ok
    /\ Len(processed) > 1

\* C5: events are handled one at a time and in feed order: the events
\* handled so far are a prefix of the feed, at most one event is in hand, it
\* is the one last pulled, and the next event is pulled only when no event
\* is in hand.
C5_FeedOrder ==
    /\ pulled <= Len(feed_events)
    /\ Len(processed) <= pulled
    /\ processed = SubSeq(feed_events, 1, Len(processed))
    /\ IF IsSome(inflight)
       THEN /\ pulled = Len(processed) + 1
            /\ Unwrap(inflight).event = feed_events[pulled]
       ELSE pulled = Len(processed)

C5_Witness ==
    /\ Len(processed) >= 2
    /\ processed[1] # processed[2]
    /\ IsSome(inflight)

(***************************************************************************)
(* PositionSpec: a caller (the Portfolio) creates one Position with enter  *)
(* and then calls update and exit on it with arbitrary events.             *)
(***************************************************************************)
PosInit ==
    /\ pos = None
    /\ call = NoCall
    /\ ops = 0
    /\ engine = Engine("Initialise", Trader("feed", "strategy", "execution_tx",
                                            Initialise(<<>>)))
    /\ feed_events = <<>>
    /\ pulled = 0
    /\ inflight = None
    /\ processed = <<>>
    /\ applied = 0
    /\ orders = <<>>
    /\ init_result = None
    /\ init_calls = 0
    /\ init_args = None
    /\ NoEquity
    /\ NoBuilder

\* let position = Position::enter(&fill)?
PosEnter ==
    /\ pos = None
    /\ \E fill \in Fills :
         LET r == Position_enter(fill)
         IN  /\ pos' = IF r.ok THEN Some(r.val) ELSE None
             /\ call' = [op |-> "enter", fill |-> Some(fill),
                         result |-> IF r.ok THEN Ok(Unit) ELSE r]
    /\ UNCHANGED <<ops, trader_vars, builder_vars, equity_vars>>

\* position.update(&market)
PosUpdate ==
    /\ IsSome(pos)
    /\ ops < MaxOps
    /\ \E market \in Markets :
         /\ pos' = Some(Position_update(Unwrap(pos), market))
         /\ call' = [op |-> "update", fill |-> None, result |-> Ok(Unit)]
    /\ ops' = ops + 1
    /\ UNCHANGED <<trader_vars, builder_vars, equity_vars>>

\* position.exit(portfolio_value, &fill)
PosExit ==
    /\ IsSome(pos)
    /\ ops < MaxOps
    /\ \E fill \in Fills, portfolio_value \in PortfolioValues :
         LET r == Position_exit(Unwrap(pos), portfolio_value, fill)
         IN  /\ pos' = Some(r.self)
             /\ call' = [op |-> "exit", fill |-> None, result |-> r.res]
    /\ ops' = ops + 1
    /\ UNCHANGED <<trader_vars, builder_vars, equity_vars>>

PosNext == PosEnter \/ PosUpdate \/ PosExit

PositionSpec == PosInit /\ [][PosNext]_vars

(***************************************************************************)
(* Properties of Position (checked under PositionSpec).                    *)
(***************************************************************************)

\* C6: enter with a Long fill of strictly positive quantity, or a Short
\* fill of strictly negative quantity, succeeds; the new Position has the
\* direction of the decision and the quantity of the fill.
C6_EnterSucceeds ==
    (call.op = "enter" /\
     LET fill == Unwrap(call.fill)
     IN  \/ fill.decision = "Long" /\ FPos(fill.quantity)
         \/ fill.decision = "Short" /\ FNegative(fill.quantity))
    => /\ call.result = Ok(Unit)
       /\ IsSome(pos)
       /\ Unwrap(pos).direction = Unwrap(call.fill).decision
       /\ FEq(Unwrap(pos).quantity, Unwrap(call.fill).quantity)

C6_Witness ==
    /\ call.op = "enter"
    /\ Unwrap(call.fill).decision = "Short"
    /\ FNegative(Unwrap(call.fill).quantity)
    /\ IsSome(pos)
    /\ Unwrap(pos).direction = "Short"

\* C7: enter with a CloseLong or CloseShort fill of any quantity fails with
\* CannotEnterPositionWithExitFill and creates no Position.
C7_EnterRejectsExitFill ==
    (call.op = "enter" /\ Unwrap(call.fill).decision \in {"CloseLong", "CloseShort"})
    => /\ call.result = Err("CannotEnterPositionWithExitFill")
       /\ pos = None

C7_Witness ==
    /\ call.op = "enter"
    /\ Unwrap(call.fill).decision = "CloseShort"
    /\ IsZero(Unwrap(call.fill).quantity)
    /\ call.result = Err("CannotEnterPositionWithExitFill")
    /\ pos = None

\* C8: enter with a Long fill of quantity <= 0, or a Short fill of
\* quantity >= 0 (zero included), fails with ParseEntryDirectionError and
\* creates no Position.
C8_EnterRejectsWrongSign ==
    (call.op = "enter" /\
     LET fill == Unwrap(call.fill)
     IN  \/ fill.decision = "Long" /\ ~FPos(fill.quantity)
         \/ fill.decision = "Short" /\ ~FNegative(fill.quantity))
    => /\ call.result = Err("ParseEntryDirectionError")
       /\ pos = None

\* C9: on every Position exit can be called on, exit fails with
\* CannotExitPositionWithEntryFill whenever the fill's decision is Long or
\* Short, whatever the Position's direction and the fill's quantity, and
\* succeeds only for CloseLong / CloseShort fills.
C9_ExitRejectsEntryFill ==
    (IsSome(pos) /\ ops < MaxOps) =>
        \A fill \in Fills, portfolio_value \in PortfolioValues :
            \A r \in {Position_exit(Unwrap(pos), portfolio_value, fill)} :
                /\ fill.decision \in {"Long", "Short"}
                     => r.res = Err("CannotExitPositionWithEntryFill")
                /\ r.res.ok => fill.decision \in {"CloseLong", "CloseShort"}

C9_Witness ==
    /\ call.op = "exit"
    /\ call.result = Err("CannotExitPositionWithEntryFill")
    /\ Unwrap(pos).direction = "Short"

\* C10: on every Position exit can be called on, after a successful exit
\* with any fill and portfolio value, exit_value_gross is the fill's
\* fill_value_gross, exit_fees_total is the sum of the fill's fee items, and
\* result_profit_loss is exit_value_gross - enter_value_gross - (enter_fees_total
\* + exit_fees_total) for a Long Position and enter_value_gross -
\* exit_value_gross - (enter_fees_total + exit_fees_total) for a Short one.
C10_ExitResult ==
    (IsSome(pos) /\ ops < MaxOps) =>
        \A fill \in Fills, portfolio_value \in PortfolioValues :
            \A r \in {Position_exit(Unwrap(pos), portfolio_value, fill)} :
                r.res.ok =>
                  \A fees \in {FAdd(r.self.enter_fees_total, r.self.exit_fees_total)} :
                      /\ FEq(r.self.exit_value_gross, fill.fill_value_gross)
                      /\ FEq(r.self.exit_fees_total,
                             FAdd(FAdd(fill.fees.exchange, fill.fees.slippage),
                                  fill.fees.network))
                      /\ r.self.direction = "Long" =>
                           FEq(r.self.result_profit_loss,
                               FSub(FSub(r.self.exit_value_gross, r.self.enter_value_gross),
                                    fees))
                      /\ r.self.direction = "Short" =>
                           FEq(r.self.result_profit_loss,
                               FSub(FSub(r.self.enter_value_gross, r.self.exit_value_gross),
                                    fees))

C10_Witness ==
    /\ call.op = "exit"
    /\ call.result = Ok(Unit)
    /\ Unwrap(pos).direction = "Short"
    /\ ~FEq(Unwrap(pos).exit_fees_total, Unwrap(pos).enter_fees_total)
    /\ FEq(Unwrap(pos).result_profit_loss,
           FSub(FSub(Unwrap(pos).enter_value_gross, Unwrap(pos).exit_value_gross),
                FAdd(Unwrap(pos).enter_fees_total, Unwrap(pos).exit_fees_total)))

\* C11: once exit has succeeded (the Position carries an exit trace id),
\* every further update or exit leaves unreal_profit_loss equal to
\* result_profit_loss and leaves exit_fees, exit_fees_total,
\* exit_avg_price_gross, exit_value_gross and result_profit_loss at the
\* values of that first successful exit.
C11_ClosedIsFinal ==
    [][ (IsSome(pos) /\ IsSome(Unwrap(pos).meta.exit_trace_id)) =>
          /\ IsSome(pos')
          /\ FEq(Unwrap(pos').unreal_profit_loss, Unwrap(pos').result_profit_loss)
          /\ Unwrap(pos').exit_fees = Unwrap(pos).exit_fees
          /\ Unwrap(pos').exit_fees_total = Unwrap(pos).exit_fees_total
          /\ Unwrap(pos').exit_avg_price_gross = Unwrap(pos).exit_avg_price_gross
          /\ Unwrap(pos').exit_value_gross = Unwrap(pos).exit_value_gross
          /\ Unwrap(pos').result_profit_loss = Unwrap(pos).result_profit_loss ]_vars

\* the exit fields of a Position are all zero / unset
ExitFieldsUnset(position) ==
    /\ FEq(position.exit_fees_total, F(0))
    /\ FEq(position.exit_avg_price_gross, F(0))
    /\ FEq(position.exit_value_gross, F(0))
    /\ FEq(position.result_profit_loss, F(0))
    /\ position.meta.exit_trace_id = None
    /\ position.meta.exit_bar_timestamp = None
    /\ position.meta.exit_equity_point = None

\* C12: a Position created by enter has all exit fields zero / unset, and
\* every update and every failed exit on a Position whose exit fields are
\* zero / unset leaves them zero / unset; so they are zero / unset in every
\* state before the first successful exit.
C12_ExitFieldsUnsetWhileOpen ==
    [][ ( /\ IsSome(pos')
          /\ pos = None \/ ExitFieldsUnset(Unwrap(pos))
          /\ ~(call'.op = "exit" /\ call'.result.ok) )
        => ExitFieldsUnset(Unwrap(pos')) ]_vars

C12_Witness ==
    /\ ops = MaxOps
    /\ call.op = "exit"
    /\ ~call.result.ok
    /\ ~FEq(Unwrap(pos).current_symbol_price, Unwrap(pos).enter_avg_price_gross)
    /\ ExitFieldsUnset(Unwrap(pos))

\* C13: on every Position exit can be called on, a successful exit with any
\* fill records the exit metadata: exit_trace_id is the fill's trace id,
\* exit_bar_timestamp is set to the fill's market-time bar timestamp, and
\* last_update_trace_id / last_update_timestamp are the fill's trace id and
\* timestamp.
C13_ExitMetadata ==
    (IsSome(pos) /\ ops < MaxOps) =>
        \A fill \in Fills, portfolio_value \in PortfolioValues :
            \A r \in {Position_exit(Unwrap(pos), portfolio_value, fill)} :
                r.res.ok =>
                    /\ r.self.meta.exit_trace_id = Some(fill.trace_id)
                    /\ r.self.meta.exit_bar_timestamp = Some(fill.market_meta.timestamp)
                    /\ r.self.meta.last_update_trace_id = fill.trace_id
                    /\ r.self.meta.last_update_timestamp = fill.timestamp

\* C14: on every Position exit can be called on, after a successful
\* exit(portfolio_value, fill) the Position's exit_equity_point is set, its
\* equity is portfolio_value + result_profit_loss and its timestamp is the
\* fill's market_meta.timestamp; portfolio_value is an input of the call
\* only (passed by value) and the call returns nothing but its result and
\* the Position.
C14_ExitEquityPoint ==
    (IsSome(pos) /\ ops < MaxOps) =>
        \A fill \in Fills, portfolio_value \in PortfolioValues :
            \A r \in {Position_exit(Unwrap(pos), portfolio_value, fill)} :
                /\ DOMAIN r = {"res", "self"}
                /\ r.res.ok =>
                     /\ IsSome(r.self.meta.exit_equity_point)
                     /\ FEq(Unwrap(r.self.meta.exit_equity_point).equity,
                            FAdd(portfolio_value, r.self.result_profit_loss))
                     /\ Unwrap(r.self.meta.exit_equity_point).timestamp
                          = fill.market_meta.timestamp

C14_Witness ==
    /\ call.op = "exit"
    /\ call.result = Ok(Unit)
    /\ IsSome(Unwrap(pos).meta.exit_equity_point)
    /\ ~IsZero(Unwrap(pos).result_profit_loss)
    /\ FEq(Unwrap(Unwrap(pos).meta.exit_equity_point).equity,
           FAdd(F(MaxEquity), Unwrap(pos).result_profit_loss))
    /\ Unwrap(Unwrap(pos).meta.exit_equity_point).timestamp
         # Unwrap(pos).meta.last_update_timestamp

\* C15: update(market) applies to every Position (open or closed, it has no
\* failure result) and sets current_symbol_price to the bar's close,
\* current_value_gross to close * |quantity|, unreal_profit_loss to
\* current_value_gross - enter_value_gross - 2 * enter_fees_total for a Long
\* Position and enter_value_gross - current_value_gross - 2 * enter_fees_total
\* for a Short one, and the last-update trace id and timestamp to the market
\* event's.
C15_UpdateEffects ==
    IsSome(pos) =>
        \A market \in Markets :
            \A p \in {Position_update(Unwrap(pos), market)} :
                \A fees \in {FMul(F(2), p.enter_fees_total)} :
                    /\ FEq(p.current_symbol_price, market.bar.close)
                    /\ FEq(p.current_value_gross,
                           FMul(market.bar.close, FAbs(Unwrap(pos).quantity)))
                    /\ p.direction = "Long" =>
                         FEq(p.unreal_profit_loss,
                             FSub(FSub(p.current_value_gross, p.enter_value_gross), fees))
                    /\ p.direction = "Short" =>
                         FEq(p.unreal_profit_loss,
                             FSub(FSub(p.enter_value_gross, p.current_value_gross), fees))
                    /\ p.meta.last_update_trace_id = market.trace_id
                    /\ p.meta.last_update_timestamp = market.timestamp

C15_Witness ==
    /\ call.op = "update"
    /\ Unwrap(pos).direction = "Short"
    /\ ~IsZero(Unwrap(pos).enter_fees_total)
    /\ FEq(Unwrap(pos).current_value_gross,
           FMul(Unwrap(pos).current_symbol_price, FAbs(Unwrap(pos).quantity)))
    /\ ~FEq(Unwrap(pos).current_value_gross, Unwrap(pos).enter_value_gross)
    /\ FEq(Unwrap(pos).unreal_profit_loss,
           FSub(FSub(Unwrap(pos).enter_value_gross, Unwrap(pos).current_value_gross),
                FMul(F(2), Unwrap(pos).enter_fees_total)))

\* the fields of a Position that are fixed at entry
EntryFields(position) ==
    << position.direction, position.quantity, position.enter_fees,
       position.enter_fees_total, position.enter_avg_price_gross,
       position.enter_value_gross, position.meta.enter_trace_id,
       position.meta.enter_bar_timestamp >>

\* C16: every update and every exit, successful or failed, leaves direction,
\* quantity, enter_fees, enter_fees_total, enter_avg_price_gross,
\* enter_value_gross, enter_trace_id and enter_bar_timestamp unchanged.
C16_EntryFieldsFrame ==
    [][ IsSome(pos) =>
          /\ IsSome(pos')
          /\ call'.op \in {"update", "exit"}
          /\ EntryFields(Unwrap(pos')) = EntryFields(Unwrap(pos)) ]_vars

C16_Witness ==
    /\ ops = MaxOps
    /\ call.op = "exit"
    /\ call.result = Ok(Unit)
    /\ ~FEq(Unwrap(pos).current_symbol_price, Unwrap(pos).enter_avg_price_gross)
    /\ ~FEq(Unwrap(pos).exit_value_gross, Unwrap(pos).enter_value_gross)
    /\ ~FEq(Unwrap(pos).exit_fees_total, Unwrap(pos).enter_fees_total)
    /\ Unwrap(pos).meta.exit_trace_id # Some(Unwrap(pos).meta.enter_trace_id)

\* C17: every Position produced by a successful enter has, in every state it
\* reaches, quantity > 0 if its direction is Long and quantity < 0 if its
\* direction is Short.
C17_QuantitySignMatchesDirection ==
    IsSome(pos) =>
        /\ Unwrap(pos).direction = "Long" => FPos(Unwrap(pos).quantity)
        /\ Unwrap(pos).direction = "Short" => FNegative(Unwrap(pos).quantity)

(***************************************************************************)
(* EquitySpec: a caller constructs one EquityPoint and calls update on it  *)
(* with arbitrary Positions.                                               *)
(***************************************************************************)
\* the profit or loss of a Position an equity update counts
Contribution(position) ==
    IF IsSome(position.meta.exit_bar_timestamp)
    THEN position.result_profit_loss
    ELSE position.unreal_profit_loss

EquityInit ==
    /\ equity_start \in EquityPoints
    /\ equity_point = equity_start
    /\ equity_contributions = F(0)
    /\ equity_updates = 0
    /\ pos = None
    /\ call = NoCall
    /\ ops = 0
    /\ engine = Engine("Initialise", Trader("feed", "strategy", "execution_tx",
                                            Initialise(<<>>)))
    /\ feed_events = <<>>
    /\ pulled = 0
    /\ inflight = None
    /\ processed = <<>>
    /\ applied = 0
    /\ orders = <<>>
    /\ init_result = None
    /\ init_calls = 0
    /\ init_args = None
    /\ NoBuilder

\* equity_point.update(&position)
EquityUpdate ==
    /\ equity_updates < MaxUpdates
    /\ \E position \in EquityPositions :
         /\ equity_point' = EquityPoint_update(equity_point, position)
         /\ equity_contributions' = FAdd(equity_contributions, Contribution(position))
    /\ equity_updates' = equity_updates + 1
    /\ UNCHANGED <<equity_start, trader_vars, builder_vars, pos_vars>>

EquityNext == EquityUpdate

EquitySpec == EquityInit /\ [][EquityNext]_vars

(***************************************************************************)
(* Properties of EquityPoint (checked under EquitySpec).                   *)
(***************************************************************************)

\* C18: EquityPoint::update is additive: on every EquityPoint reached, an
\* update with a Position that has an exit bar timestamp gives equity_before
\* + result_profit_loss and an update with a Position that has none gives
\* equity_before + unreal_profit_loss; and after any sequence of updates the
\* equity is the starting equity plus the sum of the contributions.
C18_EquityAdditive ==
    /\ FEq(equity_point.equity, FAdd(equity_start.equity, equity_contributions))
    /\ \A position \in EquityPositions :
         \A e \in {EquityPoint_update(equity_point, position)} :
             /\ IsSome(position.meta.exit_bar_timestamp) =>
                  FEq(e.equity, FAdd(equity_point.equity, position.result_profit_loss))
             /\ ~IsSome(position.meta.exit_bar_timestamp) =>
                  FEq(e.equity, FAdd(equity_point.equity, position.unreal_profit_loss))

C18_Witness ==
    /\ equity_updates = MaxUpdates
    /\ ~IsZero(equity_start.equity)
    /\ ~IsZero(equity_contributions)
    /\ FEq(equity_point.equity, FAdd(equity_start.equity, equity_contributions))
    /\ ~FEq(equity_point.equity, equity_start.equity)

\* C19: on every EquityPoint reached, whatever its timestamp, an update with
\* a Position that has an exit bar timestamp sets the timestamp to that exit
\* timestamp, and an update with a Position that has none sets it to the
\* Position's last_update_timestamp.
C19_EquityTimestamp ==
    \A position \in EquityPositions :
        \A e \in {EquityPoint_update(equity_point, position)} :
            /\ IsSome(position.meta.exit_bar_timestamp) =>
                 e.timestamp = Unwrap(position.meta.exit_bar_timestamp)
            /\ ~IsSome(position.meta.exit_bar_timestamp) =>
                 e.timestamp = position.meta.last_update_timestamp

C19_Witness ==
    /\ equity_updates = MaxUpdates
    /\ equity_point.timestamp < equity_start.timestamp
    /\ ~FEq(equity_point.equity, equity_start.equity)

\* C20: over any sequence of EquityPoint::update calls, the timestamp after
\* each update is never earlier than the timestamp before it.
C20_TimestampAdvances ==
    [][ equity_point'.timestamp >= equity_point.timestamp ]_vars

(***************************************************************************)
(* TrackedSpec: a caller keeps one EquityPoint beside one Position and     *)
(* calls EquityPoint::update once after each state change of the Position: *)
(* after enter, after each update and after the exit.                      *)
(***************************************************************************)
TrackedInit ==
    /\ equity_start \in {e \in EquityPoints : e.timestamp = 0}
    /\ equity_point = equity_start
    /\ equity_contributions = F(0)
    /\ equity_updates = 0
    /\ pos = None
    /\ call = NoCall
    /\ ops = 0
    /\ engine = Engine("Initialise", Trader("feed", "strategy", "execution_tx",
                                            Initialise(<<>>)))
    /\ feed_events = <<>>
    /\ pulled = 0
    /\ inflight = None
    /\ processed = <<>>
    /\ applied = 0
    /\ orders = <<>>
    /\ init_result = None
    /\ init_calls = 0
    /\ init_args = None
    /\ NoBuilder

\* the EquityPoint after equity_point.update(&position), with the count kept
TrackedEquity(position) ==
    /\ equity_point' = EquityPoint_update(equity_point, position)
    /\ equity_contributions' = FAdd(equity_contributions, Contribution(position))
    /\ equity_updates' = equity_updates + 1

\* let position = Position::enter(&fill)?; equity_point.update(&position)
TrackedEnter ==
    /\ pos = None
    /\ \E fill \in Fills :
         LET r == Position_enter(fill)
         IN  /\ pos' = IF r.ok THEN Some(r.val) ELSE None
             /\ call' = [op |-> "enter", fill |-> Some(fill),
                         result |-> IF r.ok THEN Ok(Unit) ELSE r]
             /\ IF r.ok THEN TrackedEquity(r.val) ELSE UNCHANGED equity_vars
    /\ UNCHANGED <<ops, equity_start, trader_vars, builder_vars>>

\* position.update(&market); equity_point.update(&position)
TrackedUpdate ==
    /\ IsSome(pos)
    /\ Unwrap(pos).meta.exit_trace_id = None
    /\ ops < MaxOps
    /\ \E market \in Markets :
         LET p == Position_update(Unwrap(pos), market)
         IN  /\ pos' = Some(p)
             /\ call' = [op |-> "update", fill |-> None, result |-> Ok(Unit)]
             /\ TrackedEquity(p)
    /\ ops' = ops + 1
    /\ UNCHANGED <<equity_start, trader_vars, builder_vars>>

\* position.exit(equity_point.equity, &fill)?; equity_point.update(&position)
TrackedExit ==
    /\ IsSome(pos)
    /\ Unwrap(pos).meta.exit_trace_id = None
    /\ ops < MaxOps
    /\ \E fill \in Fills :
         LET r == Position_exit(Unwrap(pos), equity_point.equity, fill)
         IN  /\ pos' = Some(r.self)
             /\ call' = [op |-> "exit", fill |-> None, result |-> r.res]
             /\ IF r.res.ok THEN TrackedEquity(r.self) ELSE UNCHANGED equity_vars
    /\ ops' = ops + 1
    /\ UNCHANGED <<equity_start, trader_vars, builder_vars>>

TrackedNext == TrackedEnter \/ TrackedUpdate \/ TrackedExit

TrackedSpec == TrackedInit /\ [][TrackedNext]_vars

\* C21: when EquityPoint::update is called once after each state change of
\* one Position, then once the Position's exit has been applied the equity
\* is the starting equity plus the Position's result_profit_loss.
C21_NoDoubleCounting ==
    (IsSome(pos) /\ IsSome(Unwrap(pos).meta.exit_trace_id)) =>
        FEq(equity_point.equity,
            FAdd(equity_start.equity, Unwrap(pos).result_profit_loss))

\* C22: the Position of a successful enter(fill) has enter_fees_total equal
\* to exchange + slippage + network of the fill's fees, enter_value_gross
\* equal to fill_value_gross, enter_avg_price_gross equal to
\* |fill_value_gross / quantity|, unreal_profit_loss equal to
\* -2 * enter_fees_total, current_symbol_price equal to enter_avg_price_gross
\* and current_value_gross equal to enter_value_gross.
C22_EnterComputation ==
    (call.op = "enter" /\ call.result.ok) =>
        \A fill \in {Unwrap(call.fill)}, p \in {Unwrap(pos)} :
            /\ FEq(p.enter_fees_total,
                   FAdd(FAdd(fill.fees.exchange, fill.fees.slippage), fill.fees.network))
            /\ FEq(p.enter_value_gross, fill.fill_value_gross)
            /\ FEq(p.enter_avg_price_gross, FAbs(FDiv(fill.fill_value_gross, fill.quantity)))
            /\ FEq(p.unreal_profit_loss, FMul(F(-2), p.enter_fees_total))
            /\ FEq(p.current_symbol_price, p.enter_avg_price_gross)
            /\ FEq(p.current_value_gross, p.enter_value_gross)

C22_Witness ==
    /\ call.op = "enter"
    /\ call.result.ok
    /\ Unwrap(pos).direction = "Short"
    /\ FEq(Unwrap(pos).quantity, F(-MaxQty))
    /\ FEq(Unwrap(pos).enter_value_gross, F(1))
    /\ FEq(Unwrap(pos).enter_avg_price_gross, FDiv(F(1), F(MaxQty)))
    /\ FNegative(Unwrap(pos).unreal_profit_loss)

\* C23: the Position of a successful enter(fill) has last_update_trace_id
\* equal to enter_trace_id and last_update_timestamp equal to
\* enter_bar_timestamp, for every fill.
C23_LastUpdateIsEntry ==
    (call.op = "enter" /\ call.result.ok) =>
        /\ Unwrap(pos).meta.last_update_trace_id = Unwrap(pos).meta.enter_trace_id
        /\ Unwrap(pos).meta.last_update_timestamp = Unwrap(pos).meta.enter_bar_timestamp

(***************************************************************************)
(* BuilderSpec: a caller takes a new PositionBuilder, calls setters in any *)
(* order, any number of times, and then calls build.                       *)
(***************************************************************************)
BuilderInit ==
    /\ builder = PositionBuilder_new
    /\ built = None
    /\ NoEquity
    /\ pos = None
    /\ call = NoCall
    /\ ops = 0
    /\ engine = Engine("Initialise", Trader("feed", "strategy", "execution_tx",
                                            Initialise(<<>>)))
    /\ feed_events = <<>>
    /\ pulled = 0
    /\ inflight = None
    /\ processed = <<>>
    /\ applied = 0
    /\ orders = <<>>
    /\ init_result = None
    /\ init_calls = 0
    /\ init_args = None

\* builder = builder.field(value), for any of the setters
BuilderSet ==
    /\ built = None
    /\ \E field \in BuilderFields :
         \E value \in BuilderValues(field) :
             builder' = PositionBuilder_set(builder, field, value)
    /\ UNCHANGED <<built, trader_vars, pos_vars, equity_vars>>

\* builder.build()
BuilderBuild ==
    /\ built = None
    /\ built' = Some(PositionBuilder_build(builder))
    /\ UNCHANGED <<builder, trader_vars, pos_vars, equity_vars>>

BuilderNext == BuilderSet \/ BuilderBuild

BuilderSpec == BuilderInit /\ [][BuilderNext]_vars

(***************************************************************************)
(* Properties of PositionBuilder (checked under BuilderSpec).              *)
(***************************************************************************)
\* the fields of a Position the code computes from other fields
DerivedFields ==
    { "enter_fees_total", "enter_avg_price_gross", "exit_fees_total",
      "exit_avg_price_gross", "current_value_gross",
      "unreal_profit_loss", "result_profit_loss" }

\* C24 (as stated): build fails with BuilderIncomplete if a field other than
\* the derived ones was never set, and succeeds on a builder on which every
\* field other than the derived ones has been set.
C24_BuildRequiresNonDerived ==
    IsSome(built) =>
        /\ (\E field \in BuilderFields \ DerivedFields : builder[field] = None)
             => Unwrap(built) = Err("BuilderIncomplete")
        /\ (\A field \in BuilderFields \ DerivedFields : builder[field] # None)
             => Unwrap(built).ok

\* C24 (amended): build fails with BuilderIncomplete if any of the 17 fields,
\* the derived ones included, was never set, and succeeds on a builder on
\* which every one of the 17 fields has been set.
C24_BuildRequiresAll ==
    IsSome(built) =>
        /\ (\E field \in BuilderFields : builder[field] = None)
             => Unwrap(built) = Err("BuilderIncomplete")
        /\ (\A field \in BuilderFields : builder[field] # None)
             => Unwrap(built).ok

C24_Witness ==
    /\ IsSome(built)
    /\ Unwrap(built) = Err("BuilderIncomplete")
    /\ \A field \in BuilderFields \ DerivedFields : builder[field] # None
    /\ \E field \in DerivedFields : builder[field] = None

\* C32: on every builder a caller can hold (any setters called, in any
\* order, any number of times), build returns Ok exactly when each of the 17
\* setters has been called at least once; a setter changes its own field
\* only and leaves there the value it was passed, whatever an earlier call
\* had put; and the built Position holds for each field the value of the
\* last call of its setter.
C32_BuildIffAllSet ==
    /\ Cardinality(BuilderFields) = 17
    /\ \A field \in BuilderFields :
          \A value \in BuilderValues(field) :
              \A b \in {PositionBuilder_set(builder, field, value)} :
                  /\ b[field] = Some(value)
                  /\ \A other \in BuilderFields \ {field} : b[other] = builder[other]
    /\ \A r \in {PositionBuilder_build(builder)} :
          /\ r.ok <=> \A field \in BuilderFields : builder[field] # None
          /\ r.ok => /\ DOMAIN r.val = BuilderFields
                     /\ \A field \in BuilderFields : r.val[field] = Unwrap(builder[field])
          /\ ~r.ok => r = Err("BuilderIncomplete")
    /\ IsSome(built) => Unwrap(built) = PositionBuilder_build(builder)

\* a Position built with the direction of a later call of its setter
C32_Witness ==
    /\ IsSome(built)
    /\ Unwrap(built).ok
    /\ Unwrap(built).val.direction = "Short"
    /\ Unwrap(built).val.direction # Position_default(0).direction
    /\ \A field \in BuilderFields : builder[field] = Some(Unwrap(built).val[field])

(***************************************************************************)
(* Further properties of Position (checked under PositionSpec).            *)
(***************************************************************************)
\* the builders that reconstruct a Position: every field set from it, or
\* every field but one
BuildersOf(position) ==
    LET full == [field \in BuilderFields |-> Some(position[field])]
    IN  {full} \cup {[full EXCEPT ![field] = None] : field \in BuilderFields}

\* C25: every result of enter, exit and build is Ok or an Err of the
\* PortfolioError set, for every input, zero quantity included: enter fails
\* only with CannotEnterPositionWithExitFill or ParseEntryDirectionError,
\* exit only with CannotExitPositionWithEntryFill, build only with
\* BuilderIncomplete, and no operation returns CalcProfitLossError.
C25_ErrorClosure ==
    /\ call.result.ok \/ call.result.err \in PortfolioError \ {"CalcProfitLossError"}
    /\ (call.op = "enter" /\ ~call.result.ok) =>
           call.result.err \in {"CannotEnterPositionWithExitFill",
                                "ParseEntryDirectionError"}
    /\ (call.op = "exit" /\ ~call.result.ok) =>
           call.result.err = "CannotExitPositionWithEntryFill"
    /\ IsSome(pos) =>
           \A b \in BuildersOf(Unwrap(pos)) :
               \A r \in {PositionBuilder_build(b)} :
                   r.ok \/ r.err = "BuilderIncomplete"

C25_Witness ==
    /\ call.op = "exit"
    /\ call.result = Err("CannotExitPositionWithEntryFill")
    /\ IsZero(Unwrap(pos).quantity)
    /\ IsInf(Unwrap(pos).enter_avg_price_gross)
    /\ \E b \in BuildersOf(Unwrap(pos)) : PositionBuilder_build(b) = Err("BuilderIncomplete")
    /\ \E b \in BuildersOf(Unwrap(pos)) : PositionBuilder_build(b).ok

(***************************************************************************)
(* Further properties of the Trader lifecycle (checked under Spec).        *)
(***************************************************************************)

\* C26: init() calls the Portfolio initialiser exactly once: the initialiser
\* is never called a second time, a Trader that has left Initialise has
\* called it once, after a failed call the Engine is Terminate with that
\* error in every later state (never Consume), and the Engine variant init()
\* yields is determined by the initialiser's result alone.
C26_InitOnce ==
    /\ init_calls <= 1
    /\ init_calls = 1 <=> IsSome(init_result)
    /\ engine.tag # "Initialise" <=> init_calls = 1
    /\ (IsSome(init_result) /\ ~Unwrap(init_result).ok) =>
           /\ engine.tag = "Terminate"
           /\ engine.trader.state = Terminate(Err(Unwrap(init_result).err))
    /\ engine.tag = "Initialise" =>
           \A r \in InitResults :
               Trader_init(engine.trader, r).tag = IF r.ok THEN "Consume" ELSE "Terminate"

C26_Witness ==
    /\ init_calls = 1
    /\ init_result = Some(Err("InitError2"))
    /\ engine.tag = "Terminate"
    /\ pulled = 0
    /\ Len(feed_events) = MaxFeed

(***************************************************************************)
(* FairSpec: a run of a Trader that is scheduled fairly.  The Trader is a  *)
(* single cooperative loop: a step that stays possible is eventually       *)
(* taken.  The feed is finite: it closes after its last event.             *)
(***************************************************************************)
FairSpec == Init /\ [][Next]_vars /\ WF_vars(Next)

\* C27: with a finite feed and fair scheduling the Trader eventually reaches
\* Terminate; and a Trader that is still in Consume when the feed closes (no
\* dispatch error and no shutdown command ended it before) then terminates
\* with every event of the feed processed and reason Ok(()).
C27_Terminates ==
    /\ <>(engine.tag = "Terminate")
    /\ (engine.tag = "Consume" /\ inflight = None /\ pulled = Len(feed_events))
         ~> ( /\ engine.tag = "Terminate"
              /\ engine.trader.state.reason = Ok(Unit)
              /\ processed = feed_events )

C27_Witness ==
    /\ engine.tag = "Terminate"
    /\ engine.trader.state.reason = Ok(Unit)
    /\ Len(feed_events) = MaxFeed
    /\ processed = feed_events
    /\ \A i \in 1..Len(feed_events) : feed_events[i].kind # "Command"
    /\ \E i \in 1..Len(feed_events) : feed_events[i].kind = "Account"

\* C28: every Position state reached after a successful exit has
\* exit_value_gross equal to |quantity| * exit_avg_price_gross, with the
\* Position's own quantity, whatever the quantity of the exit fill was.
\* Stated for the Positions with a quantity other than zero and a finite
\* exit price (no division by a zero fill quantity is involved).
C28_ExitValueIdentity ==
    (/\ IsSome(pos)
     /\ IsSome(Unwrap(pos).meta.exit_trace_id)
     /\ ~IsZero(Unwrap(pos).quantity)
     /\ ~IsInf(Unwrap(pos).exit_avg_price_gross)
     /\ ~IsNaN(Unwrap(pos).exit_avg_price_gross)) =>
        FEq(Unwrap(pos).exit_value_gross,
            FMul(FAbs(Unwrap(pos).quantity), Unwrap(pos).exit_avg_price_gross))

\* C29: on every Position exit can be called on, an exit that fails (a fill
\* with an entry decision) leaves the Position as it was before the call:
\* every field, including unreal_profit_loss, the exit fields and the
\* metadata, keeps its value.
C29_FailedExitFrame ==
    (IsSome(pos) /\ ops < MaxOps) =>
        \A fill \in Fills, portfolio_value \in PortfolioValues :
            \A r \in {Position_exit(Unwrap(pos), portfolio_value, fill)} :
                ~r.res.ok => r.self = Unwrap(pos)

C29_Witness ==
    /\ call.op = "exit"
    /\ ~call.result.ok
    /\ Unwrap(pos).direction = "Long"
    /\ ~IsZero(Unwrap(pos).unreal_profit_loss)
    /\ ~IsZero(Unwrap(pos).enter_fees_total)
    /\ IsZero(Unwrap(pos).exit_fees_total)
    /\ Unwrap(pos).meta.exit_trace_id = None
    /\ Unwrap(pos).meta.exit_equity_point = None

\* C30: on every Position exit can be called on, exit succeeds for every
\* closing fill whatever the Position's direction (CloseShort on a Long
\* Position, CloseLong on a Short one), the fill's decision has no effect on
\* the Position exit leaves (the same fill with the other closing decision
\* leaves the same Position), and result_profit_loss follows the formula of
\* the Position's direction.
C30_ExitIgnoresCloseDirection ==
    (IsSome(pos) /\ ops < MaxOps) =>
        \A fill \in Fills, portfolio_value \in PortfolioValues :
            fill.decision = "CloseShort" =>
                \A r \in {Position_exit(Unwrap(pos), portfolio_value, fill)},
                   o \in {Position_exit(Unwrap(pos), portfolio_value,
                                        [fill EXCEPT !.decision = "CloseLong"])} :
                    /\ r.res = Ok(Unit)
                    /\ o = r
                    /\ r.self.direction = Unwrap(pos).direction
                    /\ \A fees \in {FAdd(r.self.enter_fees_total, r.self.exit_fees_total)} :
                         FEq(r.self.result_profit_loss,
                             IF Unwrap(pos).direction = "Long"
                             THEN FSub(FSub(r.self.exit_value_gross,
                                            r.self.enter_value_gross), fees)
                             ELSE FSub(FSub(r.self.enter_value_gross,
                                            r.self.exit_value_gross), fees))

\* a Long Position as a successful exit with a CloseShort fill leaves it
C30_Witness ==
    /\ call.op = "exit"
    /\ call.result = Ok(Unit)
    /\ Unwrap(pos).direction = "Long"
    /\ FPos(Unwrap(pos).result_profit_loss)
    /\ \E fill \in Fills, portfolio_value \in PortfolioValues :
         /\ fill.decision = "CloseShort"
         /\ Position_exit(Unwrap(pos), portfolio_value, fill)
              = [res |-> Ok(Unit), self |-> Unwrap(pos)]

\* C31: on every open Position (Long or Short) exit can be called on, a
\* successful exit with a fill whose total fees equal enter_fees_total and
\* whose fill_value_gross equals the Position's current_value_gross sets
\* result_profit_loss to the unreal_profit_loss the Position had just before
\* the exit.
C31_UnrealMatchesResult ==
    (/\ IsSome(pos)
     /\ ops < MaxOps
     /\ Unwrap(pos).meta.exit_trace_id = None) =>
        \A fill \in Fills, portfolio_value \in PortfolioValues :
            (/\ ~is_entry(fill.decision)
             /\ FEq(calculate_total_fees(fill.fees), Unwrap(pos).enter_fees_total)
             /\ FEq(fill.fill_value_gross, Unwrap(pos).current_value_gross)) =>
                \A r \in {Position_exit(Unwrap(pos), portfolio_value, fill)} :
                    /\ r.res.ok
                    /\ FEq(r.self.result_profit_loss, Unwrap(pos).unreal_profit_loss)

\* a Short Position closed after an update moved its value, by a fill with
\* the entry's fees and the current value
C31_Witness ==
    /\ call.op = "exit"
    /\ call.result = Ok(Unit)
    /\ Unwrap(pos).direction = "Short"
    /\ ~IsZero(Unwrap(pos).enter_fees_total)
    /\ FEq(Unwrap(pos).exit_fees_total, Unwrap(pos).enter_fees_total)
    /\ FEq(Unwrap(pos).exit_value_gross, Unwrap(pos).current_value_gross)
    /\ ~FEq(Unwrap(pos).current_value_gross, Unwrap(pos).enter_value_gross)
    /\ FEq(Unwrap(pos).result_profit_loss, calculate_unreal_profit_loss(Unwrap(pos)))

\* C33: the init() transition leaves the Trader's feed handle, strategy
\* handle and execution channel as they were, on the success path (Consume)
\* and on the failure path (Terminate); only the state payload is replaced;
\* the instruments map is passed to the initialiser and the resulting Trader
\* no longer holds it.
C33_InitFrame ==
    [][ engine.tag = "Initialise" =>
          /\ engine'.tag \in {"Consume", "Terminate"}
          /\ engine'.tag = "Consume" <=> Unwrap(init_result').ok
          /\ DOMAIN engine'.trader = DOMAIN engine.trader
          /\ engine'.trader.feed = engine.trader.feed
          /\ engine'.trader.strategy = engine.trader.strategy
          /\ engine'.trader.execution_tx = engine.trader.execution_tx
          /\ DOMAIN engine'.trader.state
               = IF engine'.tag = "Consume" THEN {"portfolio"} ELSE {"reason"}
          /\ "instruments" \notin DOMAIN engine'.trader.state
          /\ IsSome(init_args')
          /\ Unwrap(init_args').instruments = engine.trader.state.instruments
          /\ Unwrap(init_args').execution_tx = engine.trader.execution_tx
          /\ Unwrap(init_args').feed = engine.trader.feed ]_vars

\* a Trader in Consume right after a successful init
C33_Witness ==
    /\ engine.tag = "Consume"
    /\ pulled = 0
    /\ DOMAIN engine.trader.state = {"portfolio"}
    /\ engine.trader.feed = "feed"
    /\ engine.trader.strategy = "strategy"
    /\ engine.trader.execution_tx = "execution_tx"
    /\ IsSome(init_args)
    /\ Unwrap(init_args).instruments \in InstrumentMaps
    /\ Unwrap(init_args).instruments # <<>>
    /\ Len(feed_events) = MaxFeed

====
